---- MODULE Spec2Model ----
(***************************************************************************)
(* A model of XMLParser (src/xml_parser.py) and AttributeParsingStrategy   *)
(* (src/xml_element_parsers.py).                                           *)
(*                                                                         *)
(* Python values are encoded as follows.                                   *)
(*   str   : the sequence of its characters, <<"I","T","E","M">>           *)
(*   None  : the sequence <<"None">>, whose element is no character, so    *)
(*           it differs from every str                                     *)
(*   dict  : [kind |-> "dict", s |-> <<>>, items |-> entries], entries a   *)
(*           sequence of [key, val] in insertion order, keys distinct      *)
(*   list  : [kind |-> "list", s |-> <<>>, items |-> the elements]         *)
(*   a str or None stored inside a dict or list:                           *)
(*           [kind |-> "scalar", s |-> the value, items |-> <<>>]          *)
(* An Element is a row [tag, NAME, text, children] of the document's node  *)
(* table; children are row numbers in document order and row 1 is the      *)
(* root.  Element identity is the row number.                              *)
(***************************************************************************)
EXTENDS Integers, Sequences, FiniteSets, TLC

VARIABLES
    doc,                \* self.tree / self.root: the node table, fixed after construction
    parsing_strategies, \* self.parsing_strategies: the tags mapped to an AttributeParsingStrategy
    current_element,    \* self.current_element: a row of doc
    current_path,       \* self.current_path: list of str
    data,               \* self.data: dict
    call,               \* the name of the last call made
    given_key,          \* the key argument of the last call, None if none was given
    given_path,         \* the path argument of the last call, kept by SpecPaths only
    repeated,           \* the last call had the path and key of the add_to_data before
                        \* it, kept by SpecPaths only
    raised,             \* the exception the last call raised, "none" if it returned
    pre,                \* [current_element, current_path] when the last call began
    ret,                \* what the last call returned, None for a call that returns nothing
    resolved,           \* add_to_data's local current_element when its loop ended
    calls               \* the recursive_parse invocations of the last parse, in call order

vars == <<doc, parsing_strategies, current_element, current_path, data,
          call, given_key, given_path, repeated, raised, pre, ret,
          resolved, calls>>

----------------------------------------------------------------------------
(* Bounds of the inputs. *)

\* go_to_child is called with occurrence in -MaxOccurrence .. MaxOccurrence
MaxOccurrence == 1

----------------------------------------------------------------------------
(* Python values. *)

None == <<"None">>

Scalar(v) == [kind |-> "scalar", s |-> v, items |-> <<>>]

Dict(entries) == [kind |-> "dict", s |-> <<>>, items |-> entries]

List(elems) == [kind |-> "list", s |-> <<>>, items |-> elems]

EmptyDict == Dict(<<>>)

DictHas(d, k) == \E i \in 1..Len(d.items) : d.items[i].key = k

\* d[k], for a key d has
DictGet(d, k) == d.items[CHOOSE i \in 1..Len(d.items) : d.items[i].key = k].val

\* a dict that takes every assignment for a new entry
DictSetAppending(d, k, v) == Dict(Append(d.items, [key |-> k, val |-> v]))

\* d[k] = v: an existing key keeps its position, a new key is appended
DictSet(d, k, v) ==
    IF DictHas(d, k)
    THEN Dict([i \in 1..Len(d.items) |->
                 IF d.items[i].key = k THEN [key |-> k, val |-> v] ELSE d.items[i]])
    ELSE Dict(Append(d.items, [key |-> k, val |-> v]))

\* list(d.items())[0]
FirstItem(d) == d.items[1]

----------------------------------------------------------------------------
(* str operations. *)

SLASH == "/"
LBRACKET == "["
RBRACKET == "]"

\* s.split('/')
RECURSIVE Split(_)
Split(s) ==
    IF \A i \in 1..Len(s) : s[i] # SLASH
    THEN <<s>>
    ELSE LET i == CHOOSE i \in 1..Len(s) :
                      s[i] = SLASH /\ \A j \in 1..(i-1) : s[j] # SLASH
         IN  <<SubSeq(s, 1, i-1)>> \o Split(SubSeq(s, i+1, Len(s)))

\* '/'.join(parts)
RECURSIVE Join(_)
Join(parts) ==
    IF Len(parts) = 0 THEN <<>>
    ELSE IF Len(parts) = 1 THEN parts[1]
    ELSE parts[1] \o <<SLASH>> \o Join(Tail(parts))

\* seq[1:]
Rest(seq) == IF Len(seq) = 0 THEN <<>> ELSE Tail(seq)

NoMatch == [matched |-> FALSE, tag |-> <<>>, name |-> <<>>]

\* re.match(r'(.*)\[(.*)]', s): both groups are greedy, so the '[' taken is the
\* last one that still has a ']' after it and the ']' taken is the last one;
\* what follows that ']' is not part of the match.
ReMatch(s) ==
    LET opens == {i \in 1..Len(s) :
                     s[i] = LBRACKET /\ \E j \in (i+1)..Len(s) : s[j] = RBRACKET}
    IN  IF opens = {} THEN NoMatch
        ELSE LET i == CHOOSE i \in opens : \A k \in opens : k <= i
                 closes == {j \in (i+1)..Len(s) : s[j] = RBRACKET}
                 j == CHOOSE j \in closes : \A k \in closes : k <= j
             IN  [matched |-> TRUE,
                  tag     |-> SubSeq(s, 1, i-1),
                  name    |-> SubSeq(s, i+1, j-1)]

----------------------------------------------------------------------------
(* The documents the parser is constructed on. *)

ROOT == <<"R","O","O","T">>
ITEM == <<"I","T","E","M">>
ATTRIBUTES == <<"A","T","T","R","I","B","U","T","E","S">>
TagX == <<"X">>
TagY == <<"Y">>
KeyName == <<"n","a","m","e">>
KeyData == <<"d","a","t","a">>

Elem(tag, name, text, children) ==
    [tag |-> tag, NAME |-> name, text |-> text, children |-> children]

\* <ROOT><ITEM NAME="a">1</ITEM><ITEM NAME="b">2</ITEM></ROOT>
Doc1 == << Elem(ROOT, None, None, <<2, 3>>),
           Elem(ITEM, <<"a">>, <<"1">>, <<>>),
           Elem(ITEM, <<"b">>, <<"2">>, <<>>) >>

\* <ROOT><X NAME="p">1</X><Y NAME="q">2</Y></ROOT>
Doc2 == << Elem(ROOT, None, None, <<2, 3>>),
           Elem(TagX, <<"p">>, <<"1">>, <<>>),
           Elem(TagY, <<"q">>, <<"2">>, <<>>) >>

\* <ROOT><ITEM NAME="a">1<X NAME="p">3<Y>4</Y></X></ITEM><ITEM NAME="a">2</ITEM></ROOT>
Doc3 == << Elem(ROOT, None, None, <<2, 5>>),
           Elem(ITEM, <<"a">>, <<"1">>, <<3>>),
           Elem(TagX, <<"p">>, <<"3">>, <<4>>),
           Elem(TagY, None, <<"4">>, <<>>),
           Elem(ITEM, <<"a">>, <<"2">>, <<>>) >>

\* <ROOT NAME="r">t<ATTRIBUTES NAME="n"><X NAME="p">4</X><Y NAME="p">5<X NAME="q">6</X></Y>
\*       <ITEM>8</ITEM></ATTRIBUTES><X NAME="">7<ATTRIBUTES/><ATTRIBUTES NAME=""/></X></ROOT>
Doc4 == << Elem(ROOT, <<"r">>, <<"t">>, <<2, 6>>),
           Elem(ATTRIBUTES, <<"n">>, None, <<3, 4, 8>>),
           Elem(TagX, <<"p">>, <<"4">>, <<>>),
           Elem(TagY, <<"p">>, <<"5">>, <<5>>),
           Elem(TagX, <<"q">>, <<"6">>, <<>>),
           Elem(TagX, <<>>, <<"7">>, <<7, 9>>),
           Elem(ATTRIBUTES, None, None, <<>>),
           Elem(ITEM, None, <<"8">>, <<>>),
           Elem(ATTRIBUTES, <<>>, None, <<>>) >>

\* <ROOT><ATTRIBUTES><X NAME="p">1</X></ATTRIBUTES></ROOT>
Doc5 == << Elem(ROOT, None, None, <<2>>),
           Elem(ATTRIBUTES, None, None, <<3>>),
           Elem(TagX, <<"p">>, <<"1">>, <<>>) >>

Docs == {Doc1, Doc2, Doc3, Doc4, Doc5}

\* the tags a strategy map given to the parser may have as keys; every value
\* is an AttributeParsingStrategy, the one concrete strategy there is
StrategyTags == {ATTRIBUTES, ITEM}

----------------------------------------------------------------------------
(* Element. *)

\* self.root = self.tree.getroot()
root == 1

\* for child in element / list(element)
Children(element) == doc[element].children

\* element.attrib.get('NAME')
AttribName(element) == doc[element].NAME

\* element.iter(): the element and its descendants in document order
RECURSIVE Iter(_)
RECURSIVE IterAll(_)
IterAll(elements) ==
    IF Len(elements) = 0 THEN <<>>
    ELSE Iter(elements[1]) \o IterAll(Tail(elements))
Iter(element) == <<element>> \o IterAll(Children(element))

\* [child for child in element if <condition>]
ChildrenWith(element, Cond(_)) == SelectSeq(Children(element), Cond)

\* a find that takes the last direct child with the tag
FindLast(element, tag) ==
    LET found == ChildrenWith(element, LAMBDA child : doc[child].tag = tag)
    IN  IF Len(found) = 0 THEN 0 ELSE found[Len(found)]

\* element.find(tag) for a tag that is a plain name: the first direct child
\* with that tag, 0 (no element) when there is none
Find(element, tag) ==
    LET found == ChildrenWith(element, LAMBDA child : doc[child].tag = tag)
    IN  IF Len(found) = 0 THEN 0 ELSE found[1]

----------------------------------------------------------------------------
(* AttributeParsingStrategy, src/xml_element_parsers.py. *)

\* a loop that keeps the first text met for a NAME
RECURSIVE AttributeChildElementsKeepingFirst(_, _)
AttributeChildElementsKeepingFirst(children, child_elements) ==
    IF Len(children) = 0 THEN child_elements
    ELSE LET child == children[1]
             name == AttribName(child)
             text == doc[child].text
         IN  AttributeChildElementsKeepingFirst(
                 Tail(children),
                 IF DictHas(child_elements, name) THEN child_elements
                 ELSE DictSet(child_elements, name, Scalar(text)))

\* the loop of lines 26-29 over the children still to visit
RECURSIVE AttributeChildElements(_, _)
AttributeChildElements(children, child_elements) ==
    IF Len(children) = 0 THEN child_elements
    ELSE LET child == children[1]
             name == AttribName(child)
             text == doc[child].text
         IN  AttributeChildElements(Tail(children),
                                    DictSet(child_elements, name, Scalar(text)))

AttributeParsingStrategy(element) ==
    Dict(<< [key |-> doc[element].tag,
             val |-> AttributeChildElements(Children(element), EmptyDict)] >>)

----------------------------------------------------------------------------
(* XMLParser.recursive_parse and parse. *)

\* a fold that looks for a strategy at the root only
HasStrategyAtRootOnly(element) ==
    element = root /\ doc[element].tag \in parsing_strategies

\* strategy = self.parsing_strategies.get(element.tag); strategy is not None
HasStrategy(element) == doc[element].tag \in parsing_strategies

\* a collision check that takes any two children for a collision
TagsCollideWheneverSeveral(element) == Len(Children(element)) > 1

\* a collision check that takes an element without children for a collision
TagsCollideOrNoChildren(element) ==
    LET child_element_tags == [i \in 1..Len(Children(element)) |->
                                  doc[Children(element)[i]].tag]
    IN  \/ Len(child_element_tags) = 0
        \/ Len(child_element_tags) #
           Cardinality({child_element_tags[i] : i \in 1..Len(child_element_tags)})

\* len(child_element_tags) != len(set(child_element_tags))
TagsCollide(element) ==
    LET child_element_tags == [i \in 1..Len(Children(element)) |->
                                  doc[Children(element)[i]].tag]
    IN  Len(child_element_tags) #
        Cardinality({child_element_tags[i] : i \in 1..Len(child_element_tags)})

\* a key that is the tag when the NAME attribute is empty as well
SelfKeyUnlessEmpty(element) ==
    IF AttribName(element) = None \/ AttribName(element) = <<>>
    THEN doc[element].tag ELSE AttribName(element)

\* the key of the returned record: the NAME attribute unless it is None
SelfKey(element) ==
    IF AttribName(element) = None THEN doc[element].tag ELSE AttribName(element)

\* child_elements.append({'name': name, 'data': data}) for every child_info
ListOfRecords(child_infos) ==
    List([i \in 1..Len(child_infos) |->
            LET item == FirstItem(child_infos[i])
            IN  Dict(<< [key |-> KeyName, val |-> Scalar(item.key)],
                        [key |-> KeyData, val |-> item.val] >>)])

\* a mapping that keeps the first data met for a name
RECURSIVE MappingOfRecordsKeepingFirst(_, _)
MappingOfRecordsKeepingFirst(child_infos, child_elements) ==
    IF Len(child_infos) = 0 THEN child_elements
    ELSE LET item == FirstItem(child_infos[1])
         IN  MappingOfRecordsKeepingFirst(
                 Tail(child_infos),
                 IF DictHas(child_elements, item.key) THEN child_elements
                 ELSE DictSet(child_elements, item.key, item.val))

\* child_elements[name] = data for every child_info still to visit
RECURSIVE MappingOfRecords(_, _)
MappingOfRecords(child_infos, child_elements) ==
    IF Len(child_infos) = 0 THEN child_elements
    ELSE LET item == FirstItem(child_infos[1])
         IN  MappingOfRecords(Tail(child_infos),
                              DictSet(child_elements, item.key, item.val))

RECURSIVE Concat(_)
Concat(seqs) == IF Len(seqs) = 0 THEN <<>> ELSE seqs[1] \o Concat(Tail(seqs))

\* recursive_parse(element): what it returns, and the invocations it makes
\* (itself first, then those of its children) with the branch each took
RECURSIVE recursive_parse(_)
recursive_parse(element) ==
    IF HasStrategy(element)
    THEN LET r == AttributeParsingStrategy(element)
         IN  [ret   |-> r,
              calls |-> << [element |-> element, by |-> "strategy", ret |-> r] >>]
    ELSE LET children == Children(element)
             parsed == [i \in 1..Len(children) |-> recursive_parse(children[i])]
             child_infos == [i \in 1..Len(children) |-> parsed[i].ret]
             child_elements == IF TagsCollide(element)
                               THEN ListOfRecords(child_infos)
                               ELSE MappingOfRecords(child_infos, EmptyDict)
             r == Dict(<< [key |-> SelfKey(element), val |-> child_elements] >>)
         IN  [ret   |-> r,
              calls |-> << [element |-> element, by |-> "default", ret |-> r] >>
                        \o Concat([i \in 1..Len(children) |-> parsed[i].calls])]

----------------------------------------------------------------------------
(* The calls: what is recorded of each. *)

Before == [current_element |-> current_element, current_path |-> current_path]

NoResolution == [element |-> 0, failed_at |-> 0]

\* the record of a call: its name and key argument, what it raised, what it
\* returned
Returns(made, given, exception, value, res, invocations) ==
    /\ call' = made
    /\ given_key' = given
    /\ raised' = exception
    /\ pre' = Before
    /\ ret' = value
    /\ resolved' = res
    /\ calls' = invocations

----------------------------------------------------------------------------
(* XMLParser: navigation. *)

\* line 51, of any element
Info(element) == <<doc[element].tag, AttribName(element), doc[element].text>>

get_current_info == Info(current_element)

get_current_path == Join(current_path)

\* lines 83-90: the children the child_info selects
ChildrenWithInfo(child_info) ==
    LET match == ReMatch(child_info)
    IN  IF match.matched
        THEN ChildrenWith(current_element,
                          LAMBDA child : /\ doc[child].tag = match.tag
                                         /\ AttribName(child) = match.name)
        ELSE ChildrenWith(current_element, LAMBDA child : doc[child].tag = child_info)

\* a subscript that takes the first child whatever the occurrence
SubscriptFirst(children_with_info, occurrence) ==
    IF Len(children_with_info) = 0 THEN 0 ELSE children_with_info[1]

\* children_with_info[occurrence]: an index below 0 counts from the end; 0
\* stands for the IndexError of an index below -len
Subscript(children_with_info, occurrence) ==
    LET n == Len(children_with_info)
    IN  IF occurrence >= 0 THEN children_with_info[occurrence + 1]
        ELSE IF occurrence >= 0 - n THEN children_with_info[n + occurrence + 1]
        ELSE 0

\* a go_to_child that appends to the path before it looks for the child
go_to_child_AppendingFirst(child_info, occurrence) ==
    LET children_with_info == ChildrenWithInfo(child_info)
        made == "go_to_child"
        given == None
    IN  /\ current_path' = Append(current_path, child_info)
        /\ IF /\ occurrence < Len(children_with_info)
              /\ Subscript(children_with_info, occurrence) # 0
           THEN /\ current_element' = Subscript(children_with_info, occurrence)
                /\ Returns(made, given, "none", Scalar(None), NoResolution, <<>>)
           ELSE /\ Returns(made, given, "ValueError", Scalar(None), NoResolution, <<>>)
                /\ UNCHANGED current_element
        /\ UNCHANGED <<doc, parsing_strategies, data>>

\* lines 91-95
go_to_child(child_info, occurrence) ==
    LET children_with_info == ChildrenWithInfo(child_info)
        made == "go_to_child"
        given == None
    IN  IF occurrence < Len(children_with_info)
        THEN IF Subscript(children_with_info, occurrence) # 0
             THEN /\ current_element' = Subscript(children_with_info, occurrence)
                  /\ current_path' = Append(current_path, child_info)
                  /\ Returns(made, given, "none", Scalar(None), NoResolution, <<>>)
                  /\ UNCHANGED <<doc, parsing_strategies, data>>
             ELSE /\ Returns(made, given, "IndexError", Scalar(None), NoResolution, <<>>)
                  /\ UNCHANGED <<doc, parsing_strategies, current_element,
                                 current_path, data>>
        ELSE /\ Returns(made, given, "ValueError", Scalar(None), NoResolution, <<>>)
             /\ UNCHANGED <<doc, parsing_strategies, current_element,
                            current_path, data>>

\* a search that takes the root for the parent of every element
ParentsRootOnly == <<root>>

\* lines 107-108: the elements of root.iter() that have the cursor among
\* their children
Parents ==
    SelectSeq(Iter(root),
              LAMBDA parent : \E i \in 1..Len(Children(parent)) :
                                  Children(parent)[i] = current_element)

\* a go_to_parent that moves the cursor and leaves the path stack alone
go_to_parent_NotPopping ==
    LET made == "go_to_parent"
        given == None
    IN  IF current_element = root
        THEN /\ Returns(made, given, "ValueError", Scalar(None), NoResolution, <<>>)
             /\ UNCHANGED <<doc, parsing_strategies, current_element,
                            current_path, data>>
        ELSE /\ current_element' = Parents[1]
             /\ Returns(made, given, "none", Scalar(None), NoResolution, <<>>)
             /\ UNCHANGED <<doc, parsing_strategies, current_path, data>>

\* lines 105-111.  The loop takes the first parent found and falls through
\* when there is none; list.pop() of an empty list is an IndexError.
go_to_parent ==
    LET made == "go_to_parent"
        given == None
    IN  IF current_element = root
        THEN /\ Returns(made, given, "ValueError", Scalar(None), NoResolution, <<>>)
             /\ UNCHANGED <<doc, parsing_strategies, current_element,
                            current_path, data>>
        ELSE IF Len(Parents) = 0
        THEN /\ Returns(made, given, "none", Scalar(None), NoResolution, <<>>)
             /\ UNCHANGED <<doc, parsing_strategies, current_element,
                            current_path, data>>
        ELSE /\ current_element' = Parents[1]
             /\ IF Len(current_path) = 0
                THEN /\ Returns(made, given, "IndexError", Scalar(None), NoResolution, <<>>)
                     /\ UNCHANGED current_path
                ELSE /\ current_path' = SubSeq(current_path, 1, Len(current_path) - 1)
                     /\ Returns(made, given, "none", Scalar(None), NoResolution, <<>>)
             /\ UNCHANGED <<doc, parsing_strategies, data>>

----------------------------------------------------------------------------
(* XMLParser: flat extraction. *)

\* lines 125-138, one segment: the child the segment selects, 0 when it
\* selects none (the ValueError)
Step(from, element) ==
    LET match == ReMatch(element)
    IN  IF match.matched
        THEN LET found == ChildrenWith(from,
                              LAMBDA child : /\ doc[child].tag = match.tag
                                             /\ AttribName(child) = match.name)
             IN  IF Len(found) = 0 THEN 0 ELSE found[1]
        ELSE Find(from, element)

\* lines 123-138: the loop over elements from position i on, with the local
\* current_element; failed_at is the position of the segment that raised
RECURSIVE Resolve(_, _, _)
Resolve(from, elements, i) ==
    IF i > Len(elements) THEN [element |-> from, failed_at |-> 0]
    ELSE LET next == Step(from, elements[i])
         IN  IF next = 0 THEN [element |-> 0, failed_at |-> i]
             ELSE Resolve(next, elements, i + 1)

\* a split that keeps the first component
PathElementsUnskipped(path) == Split(path)

\* line 122: path.split('/')[1:]
PathElements(path) == Rest(Split(path))

\* a key that is the NAME attribute whatever key was given
StoredKeyIgnoringKey(key, element) == AttribName(element)

\* line 139
StoredKey(key, element) == IF key # None THEN key ELSE AttribName(element)

\* an add_to_data that stores the text of the root when the path fails
add_to_data_StoringOnFailure(path, key) ==
    LET res == Resolve(root, PathElements(path), 1)
        made == "add_to_data"
        given == key
        element == IF res.failed_at # 0 THEN root ELSE res.element
    IN  /\ data' = DictSet(data, StoredKey(key, element), Scalar(doc[element].text))
        /\ Returns(made, given, IF res.failed_at # 0 THEN "ValueError" ELSE "none",
                   Scalar(None), res, <<>>)
        /\ UNCHANGED <<doc, parsing_strategies, current_element, current_path>>

\* an add_to_data that resolves its path from the cursor
add_to_data_FromCursor(path, key) ==
    LET res == Resolve(current_element, PathElements(path), 1)
        made == "add_to_data"
        given == key
    IN  IF res.failed_at # 0
        THEN /\ Returns(made, given, "ValueError", Scalar(None), res, <<>>)
             /\ UNCHANGED <<doc, parsing_strategies, current_element,
                            current_path, data>>
        ELSE LET value == doc[res.element].text
             IN  /\ data' = DictSet(data, StoredKey(key, res.element), Scalar(value))
                 /\ Returns(made, given, "none", Scalar(None), res, <<>>)
                 /\ UNCHANGED <<doc, parsing_strategies, current_element,
                                current_path>>

\* lines 122-141
add_to_data(path, key) ==
    LET res == Resolve(root, PathElements(path), 1)
        made == "add_to_data"
        given == key
    IN  IF res.failed_at # 0
        THEN /\ Returns(made, given, "ValueError", Scalar(None), res, <<>>)
             /\ UNCHANGED <<doc, parsing_strategies, current_element,
                            current_path, data>>
        ELSE LET value == doc[res.element].text
             IN  /\ data' = DictSet(data, StoredKey(key, res.element), Scalar(value))
                 /\ Returns(made, given, "none", Scalar(None), res, <<>>)
                 /\ UNCHANGED <<doc, parsing_strategies, current_element,
                                current_path>>

----------------------------------------------------------------------------
(* XMLParser: parse and set_strategy. *)

\* a parse that folds from the cursor
parse_FromCursor ==
    LET done == recursive_parse(current_element)
    IN  /\ Returns("parse", None, "none", done.ret, NoResolution, done.calls)
        /\ UNCHANGED <<doc, parsing_strategies, current_element, current_path, data>>

\* lines 178-185
parse ==
    LET done == recursive_parse(root)
    IN  /\ Returns("parse", None, "none", done.ret, NoResolution, done.calls)
        /\ UNCHANGED <<doc, parsing_strategies, current_element, current_path, data>>

set_strategy(strategies) ==
    /\ parsing_strategies' = strategies
    /\ Returns("set_strategy", None, "none", Scalar(None), NoResolution, <<>>)
    /\ UNCHANGED <<doc, current_element, current_path, data>>

----------------------------------------------------------------------------
(* The inputs of the calls. *)

Elements == 1..Len(doc)

Tags == {doc[e].tag : e \in Elements}

Bracketed(tag, name) == tag \o <<LBRACKET>> \o name \o <<RBRACKET>>

\* the ways to write an element in a path: its tag, and tag[NAME] if it has a NAME
Writings(e) ==
    {doc[e].tag} \cup
    (IF doc[e].NAME = None THEN {} ELSE {Bracketed(doc[e].tag, doc[e].NAME)})

\* two ways to write no child of e's parent: a tag and a NAME no document has
Miswritings(e) == {<<"Z">>, Bracketed(doc[e].tag, <<"z">>)}

ChildInfos == (UNION {Writings(e) : e \in Elements}) \cup {<<"Z">>}

Occurrences == (0 - MaxOccurrence)..MaxOccurrence

ParentOf(e) == CHOOSE p \in Elements : \E i \in 1..Len(doc[p].children) :
                                           doc[p].children[i] = e

\* the elements from below the root down to e
RECURSIVE Chain(_)
Chain(e) == IF e = root THEN <<>> ELSE Append(Chain(ParentOf(e)), e)

\* every way to write the chain, one writing per element
RECURSIVE ChainWritings(_)
ChainWritings(chain) ==
    IF Len(chain) = 0 THEN {<<>>}
    ELSE {<<w>> \o rest : w \in Writings(chain[1]), rest \in ChainWritings(Tail(chain))}

\* the ways to write the way down to an element
WaysDown == UNION {ChainWritings(Chain(e)) : e \in Elements}

\* the ways down with one segment miswritten
WrongWaysDown ==
    UNION {LET chain == Chain(e)
           IN  UNION {{[segments EXCEPT ![i] = wrong] :
                          segments \in ChainWritings(chain),
                          wrong \in Miswritings(chain[i])}
                      : i \in 1..Len(chain)}
           : e \in Elements}

\* a path is written after the root's tag; a way down is also written after
\* '/' alone and after '/' and the root's tag
Paths ==
    {Join(<<doc[root].tag>> \o segments) : segments \in WaysDown \cup WrongWaysDown}
    \cup {Join(<<(<<>>)>> \o segments) : segments \in WaysDown}
    \cup {Join(<<(<<>>), doc[root].tag>> \o segments) : segments \in WaysDown}

\* no key, and a key that is also the NAME of an element
Keys == {None, <<"a">>}

----------------------------------------------------------------------------
(* The parser. *)

\* the documents of the specifications Spec and SpecPaths, those of SpecFold
\* and those of SpecAll
NavDocs == {Doc1, Doc3}
FoldDocs == {Doc1, Doc2, Doc3, Doc4}
AllDocs == {Doc1, Doc5}

\* XMLParser(file_path, parsing_strategies), lines 38-45, on a document of docs
Constructed(docs, tags) ==
    /\ doc \in docs
    /\ parsing_strategies \in SUBSET tags
    /\ current_element = root
    /\ current_path = <<doc[root].tag>>
    /\ data = EmptyDict
    /\ call = "__init__"
    /\ given_key = None
    /\ given_path = None
    /\ repeated = FALSE
    /\ raised = "none"
    /\ pre = [current_element |-> root, current_path |-> <<>>]
    /\ ret = Scalar(None)
    /\ resolved = NoResolution
    /\ calls = <<>>

Init == Constructed(NavDocs, {})

GoToChild == \E child_info \in ChildInfos, occurrence \in Occurrences :
                 /\ go_to_child(child_info, occurrence)
                 /\ given_path' = None /\ repeated' = FALSE

GoToParent == go_to_parent /\ given_path' = None /\ repeated' = FALSE

\* the path is not kept: the states would be as many times more as there are paths
AddToData == \E path \in Paths, key \in Keys :
                 /\ add_to_data(path, key)
                 /\ given_path' = None /\ repeated' = FALSE

\* the keys given when the path is kept: a key is given on the first document
\* only, with keys on the larger one there are five times the states
KeptKeys == IF doc = Doc1 THEN Keys ELSE {None}

\* add_to_data with the path kept
AddToDataKept == \E path \in Paths, key \in KeptKeys :
                     /\ add_to_data(path, key)
                     /\ given_path' = path
                     /\ repeated' = (/\ call = "add_to_data"
                                     /\ given_path = path /\ given_key = key)

Parse == parse /\ given_path' = None /\ repeated' = FALSE

SetStrategy == \E strategies \in SUBSET (StrategyTags \cap Tags) :
                   /\ set_strategy(strategies)
                   /\ given_path' = None /\ repeated' = FALSE

Next == GoToChild \/ GoToParent \/ AddToData \/ Parse

Spec == Init /\ [][Next]_vars

\* the fold on the larger documents, with navigation and without extraction
InitFold == Constructed(FoldDocs, StrategyTags)

NextFold == GoToChild \/ GoToParent \/ Parse \/ SetStrategy

SpecFold == InitFold /\ [][NextFold]_vars

\* navigation and extraction with the paths kept
NextPaths == GoToChild \/ GoToParent \/ AddToDataKept

SpecPaths == Init /\ [][NextPaths]_vars

\* every call, on the small documents
InitAll == Constructed(AllDocs, {})

NextAll == GoToChild \/ GoToParent \/ AddToData \/ Parse \/ SetStrategy

SpecAll == InitAll /\ [][NextAll]_vars

----------------------------------------------------------------------------
(* What the claims are stated with. *)

Str1(c) == <<c>>

\* {'name': name, 'data': data}
NameData(name, value) ==
    Dict(<< [key |-> KeyName, val |-> Scalar(name)], [key |-> KeyData, val |-> value] >>)

\* the invocation of recursive_parse on element e in the last parse
InvocationOn(e) == calls[CHOOSE i \in 1..Len(calls) : calls[i].element = e]

Invoked(e) == \E i \in 1..Len(calls) : calls[i].element = e

DistinctChildTags(e) ==
    \A j, k \in 1..Len(doc[e].children) :
        j # k => doc[doc[e].children[j]].tag # doc[doc[e].children[k]].tag

----------------------------------------------------------------------------
(* C1: with no strategies registered, parse() gives the text of the       *)
(* childless children of the root as their values:                         *)
(* <ROOT><ITEM NAME="a">1</ITEM><ITEM NAME="b">2</ITEM></ROOT> yields      *)
(* {"ROOT": [{"name": "a", "data": "1"}, {"name": "b", "data": "2"}]} and  *)
(* <ROOT><X NAME="p">1</X><Y NAME="q">2</Y></ROOT> yields                  *)
(* {"ROOT": {"p": "1", "q": "2"}}.                                         *)

C1_Doc1Parsed ==
    Dict(<< [key |-> ROOT,
             val |-> List(<< NameData(Str1("a"), Scalar(Str1("1"))),
                             NameData(Str1("b"), Scalar(Str1("2"))) >>)] >>)

C1_Doc2Parsed ==
    Dict(<< [key |-> ROOT,
             val |-> Dict(<< [key |-> Str1("p"), val |-> Scalar(Str1("1"))],
                             [key |-> Str1("q"), val |-> Scalar(Str1("2"))] >>)] >>)

C1_ChildlessChildrenGiveText ==
    (call = "parse" /\ parsing_strategies = {}) =>
        /\ doc = Doc1 => ret = C1_Doc1Parsed
        /\ doc = Doc2 => ret = C1_Doc2Parsed

----------------------------------------------------------------------------
(* C2: for every element whose tag has no registered strategy,             *)
(* recursive_parse returns a one-entry record whose inner value is a       *)
(* mapping when the direct children have pairwise distinct tags, and       *)
(* otherwise a list of {name, data} records, one per direct child, the     *)
(* i-th made of what the i-th child's fold returned.                       *)

C2_CollisionDrivenShape ==
    call = "parse" =>
        \A n \in 1..Len(calls) :
            LET e == calls[n].element
                children == doc[e].children
            IN  doc[e].tag \notin parsing_strategies =>
                    /\ calls[n].ret.kind = "dict"
                    /\ Len(calls[n].ret.items) = 1
                    /\ LET inner == calls[n].ret.items[1].val
                       IN  IF DistinctChildTags(e)
                           THEN inner.kind = "dict"
                           ELSE /\ inner.kind = "list"
                                /\ Len(inner.items) = Len(children)
                                /\ \A i \in 1..Len(children) :
                                       /\ Invoked(children[i])
                                       /\ LET of == InvocationOn(children[i]).ret.items[1]
                                          IN  inner.items[i] = NameData(of.key, of.val)

\* a parse that folded an element with repeated child tags into a list of
\* two or more records and another element with children into a mapping
C2_Witness ==
    /\ call = "parse"
    /\ \E n, m \in 1..Len(calls) :
           /\ calls[n].by = "default"
           /\ calls[n].ret.items[1].val.kind = "list"
           /\ Len(calls[n].ret.items[1].val.items) >= 2
           /\ calls[m].by = "default"
           /\ calls[m].ret.items[1].val.kind = "dict"
           /\ Len(calls[m].ret.items[1].val.items) >= 1

----------------------------------------------------------------------------
(* C3: in parse(), every element the fold reaches whose tag has a          *)
(* registered strategy gets exactly what the strategy returns, and the     *)
(* default fold does not run for it; the fold reaches the root and every   *)
(* child of an element it folds by default.                                *)

C3_StrategyPrecedence ==
    call = "parse" =>
        /\ Invoked(root)
        /\ \A n \in 1..Len(calls) :
               LET e == calls[n].element
               IN  IF doc[e].tag \in parsing_strategies
                   THEN /\ calls[n].by = "strategy"
                        /\ calls[n].ret = AttributeParsingStrategy(e)
                   ELSE /\ calls[n].by = "default"
                        /\ \A i \in 1..Len(doc[e].children) : Invoked(doc[e].children[i])
        /\ \A n, m \in 1..Len(calls) : calls[n].element = calls[m].element => n = m

\* a parse that handed an element two levels below the root to its strategy
C3_Witness ==
    /\ call = "parse"
    /\ \E n \in 1..Len(calls) :
           /\ calls[n].by = "strategy"
           /\ calls[n].element # root
           /\ ParentOf(calls[n].element) # root
           /\ Len(doc[calls[n].element].children) = 0

----------------------------------------------------------------------------
(* C4: add_to_data takes a path written '/' + root tag + '/' + segments    *)
(* and resolves the segments from the root: on                             *)
(* <ROOT><ITEM NAME="a">1</ITEM><ITEM NAME="b">2</ITEM></ROOT>,            *)
(* add_to_data("/ROOT/ITEM[a]") succeeds and then data["a"] == "1".        *)

\* "/ROOT/ITEM[a]"
C4_SlashRootItemA == Join(<< <<>>, ROOT, Bracketed(ITEM, Str1("a")) >>)

\* the claim as it stands
C4_LeadingSlashPath ==
    (/\ doc = Doc1
     /\ call = "add_to_data" /\ given_path = C4_SlashRootItemA /\ given_key = None)
        => /\ raised = "none"
           /\ DictHas(data, Str1("a"))
           /\ DictGet(data, Str1("a")) = Scalar(Str1("1"))

\* segments writes the way down to e and, at every level, e's ancestor is
\* the first of its siblings the segment fits
C4_FirstWritten(e, segments) ==
    LET chain == Chain(e)
    IN  \A i \in 1..Len(chain) :
            LET siblings == doc[ParentOf(chain[i])].children
                first == CHOOSE j \in 1..Len(siblings) :
                             /\ segments[i] \in Writings(siblings[j])
                             /\ \A k \in 1..(j-1) : segments[i] \notin Writings(siblings[k])
            IN  siblings[first] = chain[i]

\* C4 as amended: the path is written root tag + '/' + segments, with no
\* '/' before the root tag; then the segments are resolved from the root,
\* each to the first child it fits, and the text of the element reached is
\* stored under its NAME when no key is given.
C4_RootTagPath ==
    (call = "add_to_data" /\ given_key = None) =>
        \A e \in Elements : \A segments \in ChainWritings(Chain(e)) :
            (/\ C4_FirstWritten(e, segments)
             /\ given_path = Join(<<doc[root].tag>> \o segments))
            => /\ raised = "none"
               /\ resolved.element = e
               /\ DictHas(data, doc[e].NAME)
               /\ DictGet(data, doc[e].NAME) = Scalar(doc[e].text)

\* "ROOT/ITEM[a]" on the first document, with the cursor away from the
\* root: data["a"] is "1"
C4_Witness ==
    /\ doc = Doc1
    /\ call = "add_to_data" /\ raised = "none" /\ given_key = None
    /\ given_path = Join(<< ROOT, Bracketed(ITEM, Str1("a")) >>)
    /\ current_element # root
    /\ DictHas(data, Str1("a"))
    /\ DictGet(data, Str1("a")) = Scalar(Str1("1"))

----------------------------------------------------------------------------
(* C5: a successful go_to_child followed at once by go_to_parent leaves    *)
(* get_current_info() and get_current_path() as they were before the       *)
(* go_to_child: the cursor is the same element and the path stack the same *)
(* sequence.                                                               *)

C5_NavigationRoundTrip ==
    [][(call = "go_to_child" /\ raised = "none" /\ call' = "go_to_parent") =>
          /\ raised' = "none"
          /\ current_element' = pre.current_element
          /\ current_path' = pre.current_path
          /\ get_current_info' = Info(pre.current_element)
          /\ get_current_path' = Join(pre.current_path)]_vars

\* a go_to_parent that went from two levels below the root to one below
C5_Witness ==
    /\ call = "go_to_parent" /\ raised = "none"
    /\ Len(pre.current_path) = 3
    /\ Len(current_path) = 2
    /\ current_element # root

----------------------------------------------------------------------------
(* C6: a navigation call that fails changes nothing: when go_to_child      *)
(* raises, or go_to_parent raises at the root, the cursor, the path stack  *)
(* and data are what they were; go_to_parent at the root does raise.       *)

----------------------------------------------------------------------------
(* C7: go_to_child(spec, occurrence) with 0 <= occurrence < m, m the       *)
(* number of direct children of the cursor that match spec (the tag, and   *)
(* for 'tag[name]' the NAME too), moves the cursor to the occurrence-th    *)
(* such child in document order, counted from 0, and appends spec          *)
(* unchanged to the path stack.                                            *)

\* the direct children of the cursor that spec, written tag or tag[NAME], fits
C7_Matching(spec) ==
    SelectSeq(doc[current_element].children, LAMBDA child : spec \in Writings(child))

C7_OccurrenceSelected ==
    [][call' = "go_to_child" =>
          \A spec \in ChildInfos : \A occurrence \in 0..MaxOccurrence :
              (/\ occurrence < Len(C7_Matching(spec))
               /\ go_to_child(spec, occurrence))
              => /\ raised' = "none"
                 /\ current_element' = C7_Matching(spec)[occurrence + 1]
                 /\ current_path' = Append(current_path, spec)]_vars

\* the cursor went to the second of two ITEM children with NAME a by ITEM[a]
C7_Witness ==
    /\ doc = Doc3
    /\ call = "go_to_child" /\ raised = "none"
    /\ pre.current_element = root
    /\ current_element = 5
    /\ current_path = <<ROOT, Bracketed(ITEM, Str1("a"))>>

----------------------------------------------------------------------------
(* C8: go_to_child(spec, occurrence) raises ValueError for every           *)
(* occurrence out of the range of the matches, that is occurrence >= m     *)
(* and occurrence < 0, and does not move the cursor then.                  *)

C8_OutOfRangeRaises ==
    [][call' = "go_to_child" =>
          \A spec \in ChildInfos : \A occurrence \in Occurrences :
              (/\ occurrence >= Len(C7_Matching(spec)) \/ occurrence < 0
               /\ go_to_child(spec, occurrence))
              => /\ raised' = "ValueError"
                 /\ current_element' = current_element]_vars

----------------------------------------------------------------------------
(* C9: an add_to_data whose path has a segment that does not resolve, be   *)
(* it the first, a middle or the last one, raises, and data, the cursor    *)
(* and the path stack are what they were before the call.                  *)

C9_FailedExtractionKeepsState ==
    [][call' = "add_to_data" =>
          /\ resolved'.failed_at # 0 => raised' = "ValueError"
          /\ raised' # "none" => UNCHANGED <<data, current_element, current_path>>]_vars

\* a path failed at its third segment, two segments resolved, with the
\* cursor below the root and data not empty
C9_Witness ==
    /\ call = "add_to_data" /\ raised = "ValueError"
    /\ resolved.failed_at = 3
    /\ current_element # root
    /\ Len(data.items) > 0

----------------------------------------------------------------------------
(* C10: an add_to_data that resolves its path stores the text of the       *)
(* element resolved under the key given, or with no key given under the    *)
(* element's NAME attribute, None when it has none, and leaves every       *)
(* other entry of data as it was.                                          *)

C10_StoredUnderKeyOrName ==
    [][(call' = "add_to_data" /\ raised' = "none") =>
          LET element == resolved'.element
              k == IF given_key' # None THEN given_key' ELSE doc[element].NAME
              KeysOf(d) == {d.items[i].key : i \in 1..Len(d.items)}
          IN  /\ element \in Elements
              /\ DictHas(data', k)
              /\ DictGet(data', k) = Scalar(doc[element].text)
              /\ KeysOf(data') = KeysOf(data) \cup {k}
              /\ \A other \in KeysOf(data) \ {k} :
                     DictGet(data', other) = DictGet(data, other)]_vars

\* the text of an element without NAME was stored under None beside
\* another entry
C10_Witness ==
    /\ call = "add_to_data" /\ raised = "none" /\ given_key = None
    /\ resolved.element # root
    /\ doc[resolved.element].NAME = None
    /\ DictHas(data, None)
    /\ DictGet(data, None) = Scalar(doc[resolved.element].text)
    /\ Len(data.items) >= 2

----------------------------------------------------------------------------
(* C11: add_to_data resolves its path from the root of the document and    *)
(* not from the cursor: what it raises, the element it resolves and the    *)
(* key and value it stores are given by the document, the path and the key *)
(* alone, so they are the same wherever the cursor is, and the call leaves *)
(* the cursor and the path stack as they were.                             *)

\* the element the segments from position i on lead to from element from,
\* each segment taken to the first child it writes; 0 when a segment writes
\* no child.  Nothing of the parser but the document is read.
RECURSIVE C11_Walk(_, _, _)
C11_Walk(from, segments, i) ==
    IF i > Len(segments) THEN from
    ELSE LET fits == SelectSeq(doc[from].children,
                               LAMBDA child : segments[i] \in Writings(child))
         IN  IF Len(fits) = 0 THEN 0 ELSE C11_Walk(fits[1], segments, i + 1)

C11_ResolvedFromRoot ==
    call = "add_to_data" =>
        LET e == C11_Walk(root, Rest(Split(given_path)), 1)
            k == IF given_key # None THEN given_key ELSE doc[e].NAME
        IN  /\ current_element = pre.current_element
            /\ current_path = pre.current_path
            /\ IF e = 0
               THEN raised = "ValueError"
               ELSE /\ raised = "none"
                    /\ resolved.element = e
                    /\ DictHas(data, k)
                    /\ DictGet(data, k) = Scalar(doc[e].text)

\* with the cursor two levels below the root, on X, a path down to the Y
\* below it resolved, and so did earlier a path to an element the cursor
\* is not above: the entries of both are in data
C11_Witness ==
    /\ doc = Doc3
    /\ current_element = 3
    /\ call = "add_to_data" /\ raised = "none"
    /\ pre.current_element = 3
    /\ resolved.element = 4
    /\ DictHas(data, None)
    /\ DictGet(data, None) = Scalar(Str1("4"))
    /\ DictHas(data, Str1("a"))

----------------------------------------------------------------------------
(* C12: parse() is a function of the document and the strategy map: every  *)
(* parse() call, whatever go_to_child, go_to_parent and add_to_data calls  *)
(* came before it and whether they failed, returns the one structure that  *)
(* belongs to the document and the strategy map in force, so the same      *)
(* structure as long as the map is not replaced; and parse() leaves the    *)
(* cursor, the path stack and data as they were.                           *)

\* what the code returns for the documents of SpecAll:
\*   Doc1, no strategy for ITEM   {'ROOT': [{'name': 'a', 'data': {}}, {'name': 'b', 'data': {}}]}
\*   Doc1, a strategy for ITEM    {'ROOT': [{'name': 'ITEM', 'data': {}}, {'name': 'ITEM', 'data': {}}]}
\*   Doc5, no strategy for ATTRIBUTES  {'ROOT': {'ATTRIBUTES': {'p': {}}}}
\*   Doc5, a strategy for ATTRIBUTES   {'ROOT': {'ATTRIBUTES': {'p': '1'}}}
C12_Structure(document, strategies) ==
    LET Under(k, v) == Dict(<< [key |-> k, val |-> v] >>)
    IN  IF document = Doc1
        THEN IF ITEM \in strategies
             THEN Under(ROOT, List(<< NameData(ITEM, EmptyDict), NameData(ITEM, EmptyDict) >>))
             ELSE Under(ROOT, List(<< NameData(Str1("a"), EmptyDict),
                                      NameData(Str1("b"), EmptyDict) >>))
        ELSE IF ATTRIBUTES \in strategies
             THEN Under(ROOT, Under(ATTRIBUTES, Under(Str1("p"), Scalar(Str1("1")))))
             ELSE Under(ROOT, Under(ATTRIBUTES, Under(Str1("p"), EmptyDict)))

C12_ParseIsPure ==
    [][call' = "parse" =>
          /\ raised' = "none"
          /\ ret' = C12_Structure(doc, parsing_strategies)
          /\ UNCHANGED <<current_element, current_path, data, parsing_strategies>>]_vars

\* a parse with a strategy in force, the cursor below the root and two
\* entries in data, after a call that failed
C12_Witness ==
    /\ call = "parse"
    /\ parsing_strategies # {}
    /\ current_element # root
    /\ Len(data.items) >= 2

----------------------------------------------------------------------------
(* C13: what AttributeParsingStrategy.recursive_parse(element) returns is  *)
(* {element.tag: inner}, under the tag even when the element has a NAME;   *)
(* inner has one entry per NAME among the direct children (None for a      *)
(* child without NAME), its value the text of the last child with that     *)
(* NAME; nothing below the children is in it, and the fold is not called   *)
(* on any descendant of the element.                                       *)

\* the descendants of e, e not among them
C13_Descendants(e) ==
    LET below == IterAll(doc[e].children)
    IN  {below[i] : i \in 1..Len(below)}

----------------------------------------------------------------------------
(* C14: add_to_data called twice in a row with the same path and the same  *)
(* key does the same both times: it resolves the same element and stores   *)
(* the same value, or raises the same error, and data after the second     *)
(* call is data after the first.                                           *)

C14_TwiceIsOnce ==
    [][(call' = "add_to_data" /\ repeated') =>
          /\ call = "add_to_data"
          /\ raised' = raised
          /\ resolved' = resolved
          /\ data' = data]_vars

\* the second of two calls in a row with a path that does not end at the
\* root and a key, data holding another entry before the key's
C14_Witness ==
    /\ call = "add_to_data" /\ raised = "none"
    /\ repeated
    /\ given_key = Str1("a")
    /\ resolved.element = 3
    /\ DictHas(data, Str1("a"))
    /\ DictGet(data, Str1("a")) = Scalar(Str1("2"))
    /\ data.items[1].key = None
    /\ Len(data.items) >= 3
    /\ pre.current_element # root

----------------------------------------------------------------------------
(* C15: the default fold of an element without children and without a      *)
(* strategy for its tag returns {selfKey: {}}, selfKey its NAME or without *)
(* NAME its tag: the inner value is an empty mapping, not the text of the  *)
(* element and not an empty list, whatever the text is.                    *)

C15_LeafFoldsToEmptyMapping ==
    call = "parse" =>
        \A n \in 1..Len(calls) :
            LET e == calls[n].element
            IN  (doc[e].tag \notin parsing_strategies /\ Len(doc[e].children) = 0) =>
                    calls[n].ret =
                        Dict(<< [key |-> IF doc[e].NAME = None THEN doc[e].tag
                                         ELSE doc[e].NAME,
                                 val |-> Dict(<<>>)] >>)

\* a parse that folded by default a leaf with text and a leaf without
C15_Witness ==
    /\ call = "parse"
    /\ \E n, m \in 1..Len(calls) :
           /\ calls[n].by = "default"
           /\ Len(doc[calls[n].element].children) = 0
           /\ doc[calls[n].element].text # None
           /\ calls[n].ret.items[1].val = EmptyDict
           /\ calls[m].by = "default"
           /\ Len(doc[calls[m].element].children) = 0
           /\ doc[calls[m].element].text = None
           /\ calls[m].ret.items[1].val = EmptyDict

----------------------------------------------------------------------------
(* C16: whatever the default fold returns for an element, from the list    *)
(* branch or the mapping branch, is a mapping with exactly one key: the    *)
(* NAME attribute of the element when it has one, the empty string         *)
(* included, and its tag otherwise.                                        *)

C16_OneKeyNameOrTag ==
    call = "parse" =>
        \A n \in 1..Len(calls) :
            calls[n].by = "default" =>
                LET e == calls[n].element
                IN  /\ calls[n].ret.kind = "dict"
                    /\ Len(calls[n].ret.items) = 1
                    /\ calls[n].ret.items[1].key =
                           IF doc[e].NAME # None THEN doc[e].NAME ELSE doc[e].tag

\* a parse of the fourth document with no strategies: the list branch gave
\* the key '' to the X whose NAME is empty, the mapping branch the key ''
\* to the ATTRIBUTES whose NAME is empty, 'ATTRIBUTES' to the one without
\* NAME and 'r' to the root
C16_Witness ==
    /\ doc = Doc4
    /\ call = "parse"
    /\ parsing_strategies = {}
    /\ \E n \in 1..Len(calls) :
           /\ calls[n].element = 6
           /\ calls[n].ret.items[1].key = <<>>
           /\ calls[n].ret.items[1].val.kind = "list"
    /\ \E n \in 1..Len(calls) :
           /\ calls[n].element = 9
           /\ calls[n].ret.items[1].key = <<>>
           /\ calls[n].ret.items[1].val.kind = "dict"
    /\ \E n \in 1..Len(calls) :
           /\ calls[n].element = 7
           /\ calls[n].ret.items[1].key = ATTRIBUTES
    /\ \E n \in 1..Len(calls) :
           /\ calls[n].element = root
           /\ calls[n].ret.items[1].key = Str1("r")
           /\ calls[n].ret.items[1].val.kind = "dict"

----------------------------------------------------------------------------
(* C17: in the mapping branch of the default fold (the direct children     *)
(* have pairwise distinct tags) the inner mapping has one entry per key    *)
(* the children fold to, and its value is what the last child with that    *)
(* key folded to; so when two children fold to the same key the mapping    *)
(* has fewer entries than the element has children.                        *)

\* the one entry of what the fold returned for element e
C17_Folded(e) == InvocationOn(e).ret.items[1]

C17_LaterChildWins ==
    call = "parse" =>
        \A n \in 1..Len(calls) :
            LET e == calls[n].element
                children == doc[e].children
                inner == calls[n].ret.items[1].val
                keys == {C17_Folded(children[i]).key : i \in 1..Len(children)}
                Last(k) == children[CHOOSE i \in 1..Len(children) :
                               /\ C17_Folded(children[i]).key = k
                               /\ \A j \in (i+1)..Len(children) :
                                      C17_Folded(children[j]).key # k]
            IN  (calls[n].by = "default" /\ DistinctChildTags(e)) =>
                    /\ inner.kind = "dict"
                    /\ Len(inner.items) = Cardinality(keys)
                    /\ \A k \in keys :
                           /\ DictHas(inner, k)
                           /\ DictGet(inner, k) = C17_Folded(Last(k)).val
                    /\ (\E i, j \in 1..Len(children) :
                            i # j /\ C17_Folded(children[i]).key = C17_Folded(children[j]).key)
                       => Len(inner.items) < Len(children)

\* the fourth document with no strategies: the ATTRIBUTES element has the
\* children X and Y, both with NAME p, and ITEM, and folds to
\* {'n': {'p': {'q': {}}, 'ITEM': {}}}, p holding what Y folded to
C17_Witness ==
    /\ doc = Doc4
    /\ call = "parse"
    /\ parsing_strategies = {}
    /\ \E n \in 1..Len(calls) :
           /\ calls[n].element = 2
           /\ calls[n].by = "default"
           /\ calls[n].ret =
                  Dict(<< [key |-> Str1("n"),
                           val |-> Dict(<< [key |-> Str1("p"),
                                            val |-> Dict(<< [key |-> Str1("q"),
                                                             val |-> EmptyDict] >>)],
                                           [key |-> ITEM, val |-> EmptyDict] >>)] >>)

----------------------------------------------------------------------------
(* C18: in every state reached by go_to_child, go_to_parent, add_to_data   *)
(* and parse calls, failed ones included, the cursor is an element of the  *)
(* document, the first entry of the path stack is the tag of the root and  *)
(* the path stack has one entry more than the cursor has ancestors; and    *)
(* go_to_parent with the cursor below the root returns, moves the cursor   *)
(* to its parent and removes exactly the last entry of the path stack.     *)

C18_CursorAndPathAgree ==
    /\ current_element \in Elements
    /\ Len(current_path) >= 1
    /\ current_path[1] = doc[root].tag
    /\ Len(current_path) = Len(Chain(current_element)) + 1

C18_PathFollowsCursor ==
    [][/\ C18_CursorAndPathAgree
       /\ C18_CursorAndPathAgree'
       /\ (call' = "go_to_parent" /\ current_element # root) =>
              /\ raised' = "none"
              /\ current_element' = ParentOf(current_element)
              /\ Append(current_path', current_path[Len(current_path)]) = current_path]_vars

\* a go_to_parent from three levels down to two, after entries were put in
\* data
C18_Witness ==
    /\ doc = Doc3
    /\ call = "go_to_parent" /\ raised = "none"
    /\ pre.current_element = 4
    /\ Len(pre.current_path) = 4
    /\ current_element = 3
    /\ Len(current_path) = 3
    /\ Len(data.items) >= 2

----------------------------------------------------------------------------
(* C19: the path stack addresses the cursor for add_to_data when every     *)
(* step down to the cursor took the first child its entry fits, as         *)
(* go_to_child with occurrence 0 does: then add_to_data(get_current_path())*)
(* succeeds and stores the text of the cursor element under its NAME.      *)
(* When a step on the way took a later child (an occurrence above 0) the   *)
(* call does not resolve to the cursor, and when that step is the last     *)
(* one it resolves to the first sibling the entry fits and stores that     *)
(* sibling's text under that sibling's NAME.                               *)

\* the first sibling of the cursor, the cursor included, that the last
\* entry of the path stack fits
C19_FirstSibling ==
    LET siblings == doc[ParentOf(current_element)].children
        last == current_path[Len(current_path)]
    IN  siblings[CHOOSE j \in 1..Len(siblings) :
                     /\ last \in Writings(siblings[j])
                     /\ \A k \in 1..(j-1) : last \notin Writings(siblings[k])]

C19_Stored(element) ==
    /\ raised' = "none"
    /\ resolved'.element = element
    /\ DictHas(data', doc[element].NAME)
    /\ DictGet(data', doc[element].NAME) = Scalar(doc[element].text)

====
